---- MODULE Spec2Model ----
(***************************************************************************)
(* Model of src/rasta/c/event_system.c: the event registries (intrusive    *)
(* doubly-linked lists of timed events and fd events) and the event loop   *)
(* event_system_start with its deadline computation and readiness wait.    *)
(***************************************************************************)
EXTENDS Integers, Sequences, FiniteSets, TLC

\* ------------------------------------------------------------------ bounds

\* Most add_* calls made in one behaviour of the registry specifications.
MaxAdds == 4

\* The clock is followed up to this reading (nanoseconds).
MaxTime == 2010

\* A reading of the clock finds it advanced by at most this much since the
\* last reading or the expiry of the wait.
MaxLate == 1

\* Most callback invocations followed in one run of the loop.
MaxCalls == 2

\* Most calls of reschedule/enable/disable made by the callbacks of one run
\* (SpecLoopApi).
MaxOps == 2

\* The clock reading when event_system_start is called.
Epoch == 3

\* Bits of evtime_t / uint64_t in the model (64 in the program).
UINT64_WIDTH == 16

\* ---------------------------------------------------------------- handles

\* The null pointer.
NULL == "NULL"

\* The event_system objects of the program.
EvSys == {"A", "B"}

\* The timed_event and fd_event objects owned by the callers.
TimedEvents == {"t1", "t2", "t3"}
FdEvents == {"f1", "f2", "f3"}

\* event_system.h interest flags (bit masks), as used by prepare_fd_sets.
EV_READABLE == 1
EV_WRITABLE == 2
EV_EXCEPTIONAL == 4

\* Largest uint64_t, the "no deadline" value of calc_next_timed_event.
UINT64_MAX == 2 ^ UINT64_WIDTH - 1

\* <sys/select.h>: capacity of an fd_set.
FD_SETSIZE == 1024

\* Unsigned arithmetic of uint64_t.
Wrap(x) == x % (UINT64_MAX + 1)

VARIABLES
    timed_events,   \* [EvSys -> [first, last]]: ev_sys->timed_events
    fd_events,      \* [EvSys -> [first, last]]: ev_sys->fd_events
    tevs,           \* [TimedEvents -> timed_event struct]
    fevs,           \* [FdEvents -> fd_event struct]
    hist,           \* history of the registry calls (observation only)
    now,            \* CLOCK_MONOTONIC, in nanoseconds
    pc,             \* where event_system_start stands
    cur_time,       \* event_system_start: cur_time
    time_to_wait,   \* event_system_start: time_to_wait
    next_event,     \* event_system_start: next_event
    sel,            \* event_system_sleep: tv, nfds, the three fd_sets, result
    current,        \* handle_fd_events: the event and the condition dispatched
    ret,            \* what the callback invoked in this iteration returned
    obs             \* observations of the run (not program state)

loopvars == <<now, pc, cur_time, time_to_wait, next_event, sel, current, ret, obs>>

regvars == <<timed_events, fd_events, tevs, fevs, hist>>

\* ------------------------------------------------------- registries (heap)

\* A registry together with the structs it links: the memory add/remove touch.
TimedHeap == [list |-> timed_events, ev |-> tevs]
FdHeap == [list |-> fd_events, ev |-> fevs]

\* for (current = first; current; current = current->next), cut after
\* `fuel` nodes so that a cyclic list is seen as a walk of full length.
RECURSIVE Walk(_, _, _)
Walk(ev, cur, fuel) ==
    IF cur = NULL \/ fuel = 0 THEN <<>>
    ELSE <<cur>> \o Walk(ev, ev[cur].next, fuel - 1)

\* The same from last through prev.
RECURSIVE WalkBack(_, _, _)
WalkBack(ev, cur, fuel) ==
    IF cur = NULL \/ fuel = 0 THEN <<>>
    ELSE <<cur>> \o WalkBack(ev, ev[cur].prev, fuel - 1)

\* One more than the nodes a registry can hold: a walk of this length did
\* not reach NULL.
Fuel(ev) == Cardinality(DOMAIN ev) + 1

Traversal(h, s) == Walk(h.ev, h.list[s].first, Fuel(h.ev))
BackTraversal(h, s) == WalkBack(h.ev, h.list[s].last, Fuel(h.ev))
Terminates(h, s) == Len(Traversal(h, s)) < Fuel(h.ev)

Range(q) == {q[i] : i \in 1..Len(q)}
Registered(h, s) == Range(Traversal(h, s))
RegisteredAnywhere(h) == UNION {Registered(h, s) : s \in EvSys}

\* add_timed_event with the tail link left out (used to test the properties).
add_timed_event_nolink(h, s, e) ==
    IF h.list[s].last # NULL
    THEN LET h1 == [h  EXCEPT !.ev[e].prev = h.list[s].last]
             h2 == [h1 EXCEPT !.ev[e].next = NULL]
         IN  [h2 EXCEPT !.list[s].last = e]
    ELSE LET h1 == [h  EXCEPT !.list[s].first = e]
             h2 == [h1 EXCEPT !.list[s].last = e]
             h3 == [h2 EXCEPT !.ev[e].next = NULL]
         IN  [h3 EXCEPT !.ev[e].prev = NULL]

\* add_timed_event: the statements in program order, each on the memory the
\* previous one left.
add_timed_event(h, s, e) ==
    IF h.list[s].last # NULL
    THEN LET h1 == [h  EXCEPT !.ev[e].prev = h.list[s].last]
             h2 == [h1 EXCEPT !.ev[e].next = NULL]
             h3 == [h2 EXCEPT !.ev[h2.list[s].last].next = e]
         IN  [h3 EXCEPT !.list[s].last = e]
    ELSE LET h1 == [h  EXCEPT !.list[s].first = e]
             h2 == [h1 EXCEPT !.list[s].last = e]
             h3 == [h2 EXCEPT !.ev[e].next = NULL]
         IN  [h3 EXCEPT !.ev[e].prev = NULL]

\* remove_timed_event without the repair of the tail pointer.
remove_timed_event_notail(h, s, e) ==
    LET h1 == IF h.list[s].first = e
              THEN [h EXCEPT !.list[s].first = h.ev[h.list[s].first].next]
              ELSE h
        h3 == IF h1.ev[e].prev # NULL
              THEN [h1 EXCEPT !.ev[h1.ev[e].prev].next = h1.ev[e].next]
              ELSE h1
    IN  IF h3.ev[e].next # NULL
        THEN [h3 EXCEPT !.ev[h3.ev[e].next].prev = h3.ev[e].prev]
        ELSE h3

\* remove_timed_event.
remove_timed_event(h, s, e) ==
    LET h1 == IF h.list[s].first = e
              THEN [h EXCEPT !.list[s].first = h.ev[h.list[s].first].next]
              ELSE h
        h2 == IF h1.list[s].last = e
              THEN [h1 EXCEPT !.list[s].last = h1.ev[h1.list[s].last].prev]
              ELSE h1
        h3 == IF h2.ev[e].prev # NULL
              THEN [h2 EXCEPT !.ev[h2.ev[e].prev].next = h2.ev[e].next]
              ELSE h2
    IN  IF h3.ev[e].next # NULL
        THEN [h3 EXCEPT !.ev[h3.ev[e].next].prev = h3.ev[e].prev]
        ELSE h3

\* add_fd_event.
add_fd_event(h, s, e, options) ==
    LET l == IF h.list[s].last # NULL
             THEN LET h1 == [h  EXCEPT !.ev[e].prev = h.list[s].last]
                      h2 == [h1 EXCEPT !.ev[e].next = NULL]
                      h3 == [h2 EXCEPT !.ev[h2.list[s].last].next = e]
                  IN  [h3 EXCEPT !.list[s].last = e]
             ELSE LET h1 == [h  EXCEPT !.list[s].first = e]
                      h2 == [h1 EXCEPT !.list[s].last = e]
                      h3 == [h2 EXCEPT !.ev[e].next = NULL]
                  IN  [h3 EXCEPT !.ev[e].prev = NULL]
    IN  [l EXCEPT !.ev[e].options = options]

\* remove_fd_event.
remove_fd_event(h, s, e) ==
    LET h1 == IF h.list[s].first = e
              THEN [h EXCEPT !.list[s].first = h.ev[h.list[s].first].next]
              ELSE h
        h2 == IF h1.list[s].last = e
              THEN [h1 EXCEPT !.list[s].last = h1.ev[h1.list[s].last].prev]
              ELSE h1
        h3 == IF h2.ev[e].prev # NULL
              THEN [h2 EXCEPT !.ev[h2.ev[e].prev].next = h2.ev[e].next]
              ELSE h2
    IN  IF h3.ev[e].next # NULL
        THEN [h3 EXCEPT !.ev[h3.ev[e].next].prev = h3.ev[e].prev]
        ELSE h3

\* ------------------------------------------------ clock and conversions

\* evtime_to_timeval: the struct timeval {tv_sec, tv_usec} built from t.
evtime_to_timeval(t) ==
    [tv_sec |-> t \div 1000000000, tv_usec |-> t % 1000000000]

\* How long select() waits for a struct timeval, in nanoseconds: tv_sec
\* seconds and tv_usec microseconds.
TimevalNanos(tv) == tv.tv_sec * 1000000000 + tv.tv_usec * 1000

\* ------------------------------------------------- readiness multiplexer

HasFlag(options, flag) == (options \div flag) % 2 = 1

\* get_max_nfds: the loop body over the nodes T[i..], then nfds++.
RECURSIVE MaxNfdsFrom(_, _, _, _)
MaxNfdsFrom(ev, T, i, nfds) ==
    IF i > Len(T) THEN nfds + 1
    ELSE MaxNfdsFrom(ev, T, i + 1, IF nfds < ev[T[i]].fd THEN ev[T[i]].fd ELSE nfds)

\* get_max_nfds without the final nfds++.
get_max_nfds_noinc(h, s) == MaxNfdsFrom(h.ev, Traversal(h, s), 1, 0) - 1

get_max_nfds(h, s) == MaxNfdsFrom(h.ev, Traversal(h, s), 1, 0)

\* prepare_fd_sets without the test of enabled.
prepare_fd_sets_all(h, s) ==
    LET R == Registered(h, s) IN
    [on_readable  |-> {h.ev[e].fd : e \in {x \in R : HasFlag(h.ev[x].options, EV_READABLE)}},
     on_writable  |-> {h.ev[e].fd : e \in {x \in R : HasFlag(h.ev[x].options, EV_WRITABLE)}},
     on_exception |-> {h.ev[e].fd : e \in {x \in R : HasFlag(h.ev[x].options, EV_EXCEPTIONAL)}}]

\* prepare_fd_sets: the three fd_sets, as sets of descriptors.
prepare_fd_sets(h, s) ==
    LET R == {x \in Registered(h, s) : h.ev[x].enabled # 0} IN
    [on_readable  |-> {h.ev[e].fd : e \in {x \in R : HasFlag(h.ev[x].options, EV_READABLE)}},
     on_writable  |-> {h.ev[e].fd : e \in {x \in R : HasFlag(h.ev[x].options, EV_WRITABLE)}},
     on_exception |-> {h.ev[e].fd : e \in {x \in R : HasFlag(h.ev[x].options, EV_EXCEPTIONAL)}}]

\* The fd_set tested by the k-th if of the loop body of handle_fd_events.
SetOf(sets, k) ==
    IF k = 1 THEN sets.on_readable
    ELSE IF k = 2 THEN sets.on_writable
    ELSE sets.on_exception

NoCursor == [ev |-> NULL, k |-> 0]

\* handle_fd_events from the k-th if of node cur on: the next callback it
\* invokes (node and if), or NoCursor when the loop ends without one.
RECURSIVE handle_fd_events(_, _, _, _, _)
handle_fd_events(ev, sets, cur, k, fuel) ==
    IF cur = NULL \/ fuel = 0 THEN NoCursor
    ELSE IF k > 3 THEN handle_fd_events(ev, sets, ev[cur].next, 1, fuel - 1)
    ELSE IF ev[cur].enabled # 0 /\ ev[cur].fd \in SetOf(sets, k)
         THEN [ev |-> cur, k |-> k]
    ELSE handle_fd_events(ev, sets, cur, k + 1, fuel)

\* ---------------------------------------------------- deadline scheduler

\* The value of a pointer variable that was never assigned.
INDETERMINATE == "INDETERMINATE"

\* calc_next_timed_event that scans on after an event that is already due.
RECURSIVE CalcFromNoEarlyReturn(_, _, _, _, _, _)
CalcFromNoEarlyReturn(ev, T, i, ct, ttw, cand) ==
    IF i > Len(T) THEN [time_to_wait |-> ttw, next_timed_event |-> cand]
    ELSE IF ev[T[i]].enabled = 0 THEN CalcFromNoEarlyReturn(ev, T, i + 1, ct, ttw, cand)
    ELSE LET continue_at == Wrap(ev[T[i]].last_call + ev[T[i]].interval) IN
         IF continue_at <= ct
         THEN CalcFromNoEarlyReturn(ev, T, i + 1, ct, 0, T[i])
         ELSE LET new_time_to_wait == Wrap(continue_at - ct) IN
              IF new_time_to_wait < ttw
              THEN CalcFromNoEarlyReturn(ev, T, i + 1, ct, new_time_to_wait, T[i])
              ELSE CalcFromNoEarlyReturn(ev, T, i + 1, ct, ttw, cand)

\* calc_next_timed_event without the test of the enabled flag.
RECURSIVE CalcFromNoEnabledTest(_, _, _, _, _, _)
CalcFromNoEnabledTest(ev, T, i, ct, ttw, cand) ==
    IF i > Len(T) THEN [time_to_wait |-> ttw, next_timed_event |-> cand]
    ELSE LET continue_at == Wrap(ev[T[i]].last_call + ev[T[i]].interval) IN
         IF continue_at <= ct
         THEN [time_to_wait |-> 0, next_timed_event |-> T[i]]
         ELSE LET new_time_to_wait == Wrap(continue_at - ct) IN
              IF new_time_to_wait < ttw
              THEN CalcFromNoEnabledTest(ev, T, i + 1, ct, new_time_to_wait, T[i])
              ELSE CalcFromNoEnabledTest(ev, T, i + 1, ct, ttw, cand)

\* The loop of calc_next_timed_event over the nodes T[i..], with the values
\* of time_to_wait and *next_timed_event so far.
RECURSIVE CalcFrom(_, _, _, _, _, _)
CalcFrom(ev, T, i, ct, ttw, cand) ==
    IF i > Len(T) THEN [time_to_wait |-> ttw, next_timed_event |-> cand]
    ELSE IF ev[T[i]].enabled = 0 THEN CalcFrom(ev, T, i + 1, ct, ttw, cand)
    ELSE LET continue_at == Wrap(ev[T[i]].last_call + ev[T[i]].interval) IN
         IF continue_at <= ct
         THEN [time_to_wait |-> 0, next_timed_event |-> T[i]]
         ELSE LET new_time_to_wait == Wrap(continue_at - ct) IN
              IF new_time_to_wait < ttw
              THEN CalcFrom(ev, T, i + 1, ct, new_time_to_wait, T[i])
              ELSE CalcFrom(ev, T, i + 1, ct, ttw, cand)

\* calc_next_timed_event: the wait and what *next_timed_event holds after
\* the call (prior when the call did not write it).
calc_next_timed_event(h, s, ct, prior) ==
    CalcFrom(h.ev, Traversal(h, s), 1, ct, UINT64_MAX, prior)

\* reschedule_event at clock reading t.
reschedule_event(ev, e, t) == [ev EXCEPT ![e].last_call = t]

\* enable_timed_event at clock reading t.
enable_timed_event(ev, e, t) == reschedule_event([ev EXCEPT ![e].enabled = 1], e, t)

\* disable_timed_event.
disable_timed_event(ev, e) == [ev EXCEPT ![e].enabled = 0]

\* enable_fd_event.
enable_fd_event(ev, e) == [ev EXCEPT ![e].enabled = 1]

\* disable_fd_event.
disable_fd_event(ev, e) == [ev EXCEPT ![e].enabled = 0]

NoSel == [tv |-> evtime_to_timeval(0), nfds |-> 0, on_readable |-> {},
          on_writable |-> {}, on_exception |-> {}, result |-> 0]

\* ret while the callback has not returned.
RUNNING == -1

AllEvents == TimedEvents \cup FdEvents

NoObs == [calls |-> [e \in AllEvents |-> 0],   \* invocations of each callback
          nops |-> 0,                          \* API calls made by callbacks
          T0 |-> 0,                            \* the clock reading of line 168
          due |-> {},                          \* events due at this iteration
          fired |-> <<>>,                      \* timed callbacks of this iteration
          pass |-> <<>>,                       \* fd callbacks of the last dispatch pass
          touched |-> {},                      \* events an API call changed in it
          resched |-> [e \in TimedEvents |-> -1],     \* last reschedule_event
          enabled_at |-> [e \in TimedEvents |-> -1],  \* last enable of a disabled event
          over |-> FALSE,                      \* fd capacity exceeded at the start
          ever_due |-> FALSE,                  \* some iteration found an event due
          waited |-> FALSE,                    \* select() has been called
          stop |-> [ev |-> NULL, n |-> 0]]     \* the timed callback that stopped

\* ------------------------------------------- the registry calls as actions

\* Where e stands in registry s before it is removed.
Position(h, s, e) ==
    IF h.list[s].first = e /\ h.list[s].last = e THEN "only"
    ELSE IF h.list[s].first = e THEN "first"
    ELSE IF h.list[s].last = e THEN "last"
    ELSE "interior"

RemoveAt(q, x) == SelectSeq(q, LAMBDA y : y # x)

TotalAdds ==
    LET n(f) == f["A"] + f["B"] IN n(hist.tadd) + n(hist.fadd)

\* The caller adds timed event e, registered nowhere, to system s.
AddTimed(s, e) ==
    /\ TotalAdds < MaxAdds
    /\ e \notin RegisteredAnywhere(TimedHeap)
    /\ LET h == add_timed_event(TimedHeap, s, e) IN
        /\ timed_events' = h.list
        /\ tevs' = h.ev
    /\ hist' = [hist EXCEPT !.tadd[s] = @ + 1,
                            !.torder[s] = Append(@, e),
                            !.last = [op |-> "add", kind |-> "timed", sys |-> s,
                                      ev |-> e, pos |-> "tail",
                                      readd |-> hist.rempos[e]]]
    /\ UNCHANGED <<fd_events, fevs, loopvars>>

\* The caller removes timed event e from the system s it is registered in.
RemoveTimed(s, e) ==
    /\ hist.trem[s] < hist.tadd[s]
    /\ e \in Registered(TimedHeap, s)
    /\ LET h == remove_timed_event(TimedHeap, s, e) IN
        /\ timed_events' = h.list
        /\ tevs' = h.ev
    /\ hist' = [hist EXCEPT !.trem[s] = @ + 1,
                            !.torder[s] = RemoveAt(@, e),
                            !.rempos[e] = Position(TimedHeap, s, e),
                            !.last = [op |-> "remove", kind |-> "timed", sys |-> s,
                                      ev |-> e, pos |-> Position(TimedHeap, s, e),
                                      readd |-> "never"]]
    /\ UNCHANGED <<fd_events, fevs, loopvars>>

\* The caller adds fd event e, registered nowhere, to system s.
AddFd(s, e, options) ==
    /\ TotalAdds < MaxAdds
    /\ e \notin RegisteredAnywhere(FdHeap)
    /\ LET h == add_fd_event(FdHeap, s, e, options) IN
        /\ fd_events' = h.list
        /\ fevs' = h.ev
    /\ hist' = [hist EXCEPT !.fadd[s] = @ + 1,
                            !.forder[s] = Append(@, e),
                            !.last = [op |-> "add", kind |-> "fd", sys |-> s,
                                      ev |-> e, pos |-> "tail",
                                      readd |-> hist.rempos[e]]]
    /\ UNCHANGED <<timed_events, tevs, loopvars>>

\* The caller removes fd event e from the system s it is registered in.
RemoveFd(s, e) ==
    /\ hist.frem[s] < hist.fadd[s]
    /\ e \in Registered(FdHeap, s)
    /\ LET h == remove_fd_event(FdHeap, s, e) IN
        /\ fd_events' = h.list
        /\ fevs' = h.ev
    /\ hist' = [hist EXCEPT !.frem[s] = @ + 1,
                            !.forder[s] = RemoveAt(@, e),
                            !.rempos[e] = Position(FdHeap, s, e),
                            !.last = [op |-> "remove", kind |-> "fd", sys |-> s,
                                      ev |-> e, pos |-> Position(FdHeap, s, e),
                                      readd |-> "never"]]
    /\ UNCHANGED <<timed_events, tevs, loopvars>>

\* The caller adds a timed event that is registered already: the code has
\* no check and runs the same statements.
AddTimedRegistered(s, e) ==
    /\ TotalAdds < MaxAdds
    /\ e \in RegisteredAnywhere(TimedHeap)
    /\ LET h == add_timed_event(TimedHeap, s, e) IN
        /\ timed_events' = h.list
        /\ tevs' = h.ev
    /\ hist' = [hist EXCEPT !.tadd[s] = @ + 1,
                            !.last = [op |-> "add_registered", kind |-> "timed",
                                      sys |-> s, ev |-> e, pos |-> "tail",
                                      readd |-> "never"]]
    /\ UNCHANGED <<fd_events, fevs, loopvars>>

\* The same for an fd event.
AddFdRegistered(s, e, options) ==
    /\ TotalAdds < MaxAdds
    /\ e \in RegisteredAnywhere(FdHeap)
    /\ LET h == add_fd_event(FdHeap, s, e, options) IN
        /\ fd_events' = h.list
        /\ fevs' = h.ev
    /\ hist' = [hist EXCEPT !.fadd[s] = @ + 1,
                            !.last = [op |-> "add_registered", kind |-> "fd",
                                      sys |-> s, ev |-> e, pos |-> "tail",
                                      readd |-> "never"]]
    /\ UNCHANGED <<timed_events, tevs, loopvars>>

\* Interest masks the callers register fd events with.
RegOptions == {EV_READABLE, EV_READABLE + EV_WRITABLE}

\* A freshly constructed event_system and events not yet registered. prev and
\* next of an unregistered event are never read before add_* has written them.
NoList == [first |-> NULL, last |-> NULL]
EmptyList == [s \in EvSys |-> NoList]
FreshTimed == [prev |-> NULL, next |-> NULL, last_call |-> 0, interval |-> 1,
               enabled |-> 1]
FreshFd == [prev |-> NULL, next |-> NULL, fd |-> 3, options |-> 0, enabled |-> 1]
NoHist == [tadd |-> [s \in EvSys |-> 0], trem |-> [s \in EvSys |-> 0],
           fadd |-> [s \in EvSys |-> 0], frem |-> [s \in EvSys |-> 0],
           torder |-> [s \in EvSys |-> <<>>], forder |-> [s \in EvSys |-> <<>>],
           rempos |-> [e \in TimedEvents \cup FdEvents |-> "never"],
           last |-> [op |-> "none", kind |-> "none", sys |-> "A", ev |-> NULL,
                     pos |-> "none", readd |-> "never"]]

\* event_system_start has not been called.
LoopIdle ==
    /\ now = 0
    /\ pc = "idle"
    /\ cur_time = 0
    /\ time_to_wait = 0
    /\ next_event = INDETERMINATE
    /\ sel = NoSel
    /\ current = NoCursor
    /\ ret = 0
    /\ obs = NoObs

RegInit ==
    /\ timed_events = EmptyList
    /\ fd_events = EmptyList
    /\ tevs = [e \in TimedEvents |-> FreshTimed]
    /\ fevs = [e \in FdEvents |-> FreshFd]
    /\ hist = NoHist
    /\ LoopIdle

\* The event_system the callers register with; the other one is reached only
\* by an add that breaks the precondition.
RegSys == {"A"}

RegNext ==
    \/ \E s \in RegSys, e \in TimedEvents : AddTimed(s, e)
    \/ \E s \in RegSys, e \in TimedEvents : RemoveTimed(s, e)
    \/ \E s \in RegSys, e \in FdEvents, o \in RegOptions : AddFd(s, e, o)
    \/ \E s \in RegSys, e \in FdEvents : RemoveFd(s, e)

RegAnyNext ==
    \/ RegNext
    \/ \E s \in EvSys, e \in TimedEvents : AddTimedRegistered(s, e)
    \/ \E s \in EvSys, e \in FdEvents, o \in RegOptions : AddFdRegistered(s, e, o)

vars == <<timed_events, fd_events, tevs, fevs, hist, now, pc, cur_time,
          time_to_wait, next_event, sel, current, ret, obs>>

\* Registry calls that respect the preconditions of add and remove.
SpecReg == RegInit /\ [][RegNext]_vars

\* Registry calls including an add of an event that is registered already.
SpecRegAny == RegInit /\ [][RegAnyNext]_vars

\* --------------------------------------------------------- the event loop

\* The event_system the loop runs on.
LoopSys == "A"

RECURSIVE SumCalls(_, _)
SumCalls(f, S) ==
    IF S = {} THEN 0
    ELSE LET x == CHOOSE y \in S : TRUE IN f[x] + SumCalls(f, S \ {x})

TotalCalls == SumCalls(obs.calls, AllEvents)

\* The enabled registered timed events whose due time last_call + interval
\* has been reached at time t.
DueSet(t) ==
    {e \in Registered(TimedHeap, LoopSys) :
        tevs[e].enabled # 0 /\ tevs[e].last_call + tevs[e].interval <= t}

\* event_system_start, lines 168-171: every registered timed event is stamped
\* with the clock reading.
Start ==
    /\ pc = "start"
    /\ LET t == now IN
        /\ now' = t
        /\ cur_time' = t
        /\ tevs' = [e \in TimedEvents |->
                      IF e \in Registered(TimedHeap, LoopSys)
                      THEN [tevs[e] EXCEPT !.last_call = t] ELSE tevs[e]]
        /\ obs' = [obs EXCEPT !.T0 = t]
    /\ pc' = "loop"
    /\ UNCHANGED <<timed_events, fd_events, fevs, hist, time_to_wait, next_event,
                   sel, current, ret>>

\* The observations an iteration starts with, at clock reading t.
IterObs(t) == [obs EXCEPT !.due = DueSet(t), !.fired = <<>>, !.touched = {},
                          !.ever_due = @ \/ DueSet(t) # {}]

\* One iteration, lines 174-175 and 197: an event is due (time_to_wait = 0)
\* and its callback is invoked.
LoopFire ==
    /\ pc = "loop"
    /\ TotalCalls < MaxCalls
    /\ \E d \in 0..MaxLate :
        LET t == now + d
            r == calc_next_timed_event(TimedHeap, LoopSys, t, INDETERMINATE)
        IN
        /\ t <= MaxTime
        /\ r.time_to_wait = 0
        /\ now' = t
        /\ cur_time' = t
        /\ time_to_wait' = r.time_to_wait
        /\ next_event' = r.next_timed_event
        /\ obs' = [IterObs(t) EXCEPT !.calls[r.next_timed_event] = @ + 1,
                                     !.fired = <<r.next_timed_event>>]
    /\ pc' = "timed_cb"
    /\ ret' = RUNNING
    /\ UNCHANGED <<timed_events, fd_events, tevs, fevs, hist, sel, current>>

\* One iteration, lines 174-185 and 101-106: nothing is due, event_system_sleep
\* is called and returns -1 because nfds >= FD_SETSIZE; the loop ends.
LoopSleepFail ==
    /\ pc = "loop"
    /\ \E d \in 0..MaxLate :
        LET t == now + d
            r == calc_next_timed_event(TimedHeap, LoopSys, t, INDETERMINATE)
        IN
        /\ t <= MaxTime
        /\ r.time_to_wait # 0
        /\ get_max_nfds(FdHeap, LoopSys) >= FD_SETSIZE
        /\ now' = t
        /\ cur_time' = t
        /\ time_to_wait' = r.time_to_wait
        /\ next_event' = r.next_timed_event
        /\ obs' = IterObs(t)
    /\ pc' = "done"
    /\ ret' = 0
    /\ UNCHANGED <<timed_events, fd_events, tevs, fevs, hist, sel, current>>

\* One iteration, lines 174-185 and 101-113: nothing is due, event_system_sleep
\* is called with time_to_wait (UINT64_MAX, the value of ~0, when there is no
\* deadline) and calls select().
LoopSleep ==
    /\ pc = "loop"
    /\ \E d \in 0..MaxLate :
        LET t == now + d
            r == calc_next_timed_event(TimedHeap, LoopSys, t, INDETERMINATE)
            nfds == get_max_nfds(FdHeap, LoopSys)
            sets == prepare_fd_sets(FdHeap, LoopSys)
        IN
        /\ t <= MaxTime
        /\ r.time_to_wait # 0
        /\ nfds < FD_SETSIZE
        /\ now' = t
        /\ cur_time' = t
        /\ time_to_wait' = r.time_to_wait
        /\ next_event' = r.next_timed_event
        /\ sel' = [tv |-> evtime_to_timeval(r.time_to_wait), nfds |-> nfds,
                   on_readable |-> sets.on_readable,
                   on_writable |-> sets.on_writable,
                   on_exception |-> sets.on_exception, result |-> 0]
        /\ obs' = [IterObs(t) EXCEPT !.waited = TRUE]
    /\ pc' = "select"
    /\ ret' = 0
    /\ UNCHANGED <<timed_events, fd_events, tevs, fevs, hist, current>>

\* select() returns -1: event_system_sleep returns -1 (line 115) and the loop
\* ends (lines 179-180, 186-188).
SelectFail ==
    /\ pc = "select"
    /\ pc' = "done"
    /\ sel' = NoSel
    /\ UNCHANGED <<timed_events, fd_events, tevs, fevs, hist, now, cur_time,
                   time_to_wait, next_event, current, ret, obs>>

\* select() returns 0 once the timeout has passed (the clock has advanced by
\* the timeout at least; what it advanced beyond shows at the next reading),
\* the sets cleared;
\* handle_fd_events finds nothing; the loop continues (lines 182, 190-193).
SelectTimeout ==
    /\ pc = "select"
    /\ LET t == now + TimevalNanos(sel.tv) IN
        /\ t <= MaxTime
        /\ now' = t
    /\ pc' = "loop"
    /\ sel' = NoSel
    /\ UNCHANGED <<timed_events, fd_events, tevs, fevs, hist, cur_time,
                   time_to_wait, next_event, current, ret, obs>>

\* The (condition, descriptor) pairs select() was asked to watch.
Watched == UNION {{<<k, fd>> : fd \in SetOf(sel, k)} : k \in 1..3}

\* select() returns the number of ready descriptors, the sets cut down to
\* them (the time it took shows at the next reading of the clock);
\* handle_fd_events runs up to the first callback it invokes.
SelectReady ==
    /\ pc = "select"
    /\ TotalCalls < MaxCalls
    /\ \E ready \in (SUBSET Watched) \ {{}} :
        LET sets == [on_readable  |-> {c[2] : c \in {x \in ready : x[1] = 1}},
                     on_writable  |-> {c[2] : c \in {x \in ready : x[1] = 2}},
                     on_exception |-> {c[2] : c \in {x \in ready : x[1] = 3}}]
            m == handle_fd_events(fevs, sets, fd_events[LoopSys].first, 1, Fuel(fevs))
        IN
        /\ m.ev # NULL
        /\ sel' = [sel EXCEPT !.on_readable = sets.on_readable,
                              !.on_writable = sets.on_writable,
                              !.on_exception = sets.on_exception,
                              !.result = Cardinality(ready)]
        /\ current' = m
        /\ obs' = [obs EXCEPT !.calls[m.ev] = @ + 1, !.pass = <<m>>]
    /\ pc' = "fd_cb"
    /\ ret' = RUNNING
    /\ UNCHANGED <<timed_events, fd_events, tevs, fevs, hist, now, cur_time,
                   time_to_wait, next_event>>

\* An fd callback returns non-zero: handle_fd_events returns -1 (lines 82, 85,
\* 88), event_system_sleep returns result (lines 116-117), the loop goes on
\* as result is not -1 (lines 179-182, 186-193).
FdReturnStop ==
    /\ pc = "fd_cb"
    /\ ret' = 1
    /\ pc' = "loop"
    /\ sel' = NoSel
    /\ current' = NoCursor
    /\ UNCHANGED <<timed_events, fd_events, tevs, fevs, hist, now, cur_time,
                   time_to_wait, next_event, obs>>

\* An fd callback returns 0 and handle_fd_events invokes the next one.
FdReturnNext ==
    /\ pc = "fd_cb"
    /\ TotalCalls < MaxCalls
    /\ LET m == handle_fd_events(fevs, sel, current.ev, current.k + 1, Fuel(fevs)) IN
        /\ m.ev # NULL
        /\ current' = m
        /\ obs' = [obs EXCEPT !.calls[m.ev] = @ + 1, !.pass = Append(@, m)]
    /\ ret' = RUNNING
    /\ UNCHANGED <<timed_events, fd_events, tevs, fevs, hist, now, pc, cur_time,
                   time_to_wait, next_event, sel>>

\* An fd callback returns 0 and handle_fd_events runs off the list;
\* event_system_sleep returns result and the loop continues.
FdReturnEnd ==
    /\ pc = "fd_cb"
    /\ handle_fd_events(fevs, sel, current.ev, current.k + 1, Fuel(fevs)).ev = NULL
    /\ ret' = 0
    /\ pc' = "loop"
    /\ sel' = NoSel
    /\ current' = NoCursor
    /\ UNCHANGED <<timed_events, fd_events, tevs, fevs, hist, now, cur_time,
                   time_to_wait, next_event, obs>>

\* A non-zero return that goes on to the next iteration instead of breaking.
TimedReturnStop_continue ==
    /\ pc = "timed_cb"
    /\ ret' = 1
    /\ pc' = "loop"
    /\ obs' = [obs EXCEPT !.stop = [ev |-> next_event, n |-> obs.calls[next_event]]]
    /\ UNCHANGED <<timed_events, fd_events, tevs, fevs, hist, now, cur_time,
                   time_to_wait, next_event, sel, current>>

\* The timed callback returns non-zero: break (lines 197-199).
TimedReturnStop ==
    /\ pc = "timed_cb"
    /\ ret' = 1
    /\ pc' = "done"
    /\ obs' = [obs EXCEPT !.stop = [ev |-> next_event, n |-> obs.calls[next_event]]]
    /\ UNCHANGED <<timed_events, fd_events, tevs, fevs, hist, now, cur_time,
                   time_to_wait, next_event, sel, current>>

\* The timed callback returns 0: last_call is updated (line 201).
TimedReturn ==
    /\ pc = "timed_cb"
    /\ ret' = 0
    /\ tevs' = [tevs EXCEPT ![next_event].last_call = Wrap(cur_time + time_to_wait)]
    /\ pc' = "loop"
    /\ UNCHANGED <<timed_events, fd_events, fevs, hist, now, cur_time,
                   time_to_wait, next_event, sel, current, obs>>

\* A callback is running: it may call the API.
MayCall ==
    /\ pc \in {"fd_cb", "timed_cb"}
    /\ obs.nops < MaxOps

\* reschedule_event(e), reading the clock.
Reschedule(e) ==
    /\ MayCall
    /\ \E d \in 0..MaxLate :
        LET t == now + d IN
        /\ t <= MaxTime
        /\ now' = t
        /\ tevs' = reschedule_event(tevs, e, t)
        /\ obs' = [obs EXCEPT !.nops = @ + 1, !.touched = @ \cup {e},
                              !.resched[e] = t]
    /\ UNCHANGED <<timed_events, fd_events, fevs, hist, pc, cur_time,
                   time_to_wait, next_event, sel, current, ret>>

\* enable_timed_event(e), reading the clock.
EnableTimed(e) ==
    /\ MayCall
    /\ \E d \in 0..MaxLate :
        LET t == now + d IN
        /\ t <= MaxTime
        /\ now' = t
        /\ tevs' = enable_timed_event(tevs, e, t)
        /\ obs' = [obs EXCEPT !.nops = @ + 1, !.touched = @ \cup {e},
                              !.enabled_at[e] = IF tevs[e].enabled = 0 THEN t ELSE @]
    /\ UNCHANGED <<timed_events, fd_events, fevs, hist, pc, cur_time,
                   time_to_wait, next_event, sel, current, ret>>

\* disable_timed_event(e).
DisableTimed(e) ==
    /\ MayCall
    /\ tevs' = disable_timed_event(tevs, e)
    /\ obs' = [obs EXCEPT !.nops = @ + 1, !.touched = @ \cup {e}]
    /\ UNCHANGED <<timed_events, fd_events, fevs, hist, now, pc, cur_time,
                   time_to_wait, next_event, sel, current, ret>>

\* enable_fd_event(e).
EnableFd(e) ==
    /\ MayCall
    /\ fevs' = enable_fd_event(fevs, e)
    /\ obs' = [obs EXCEPT !.nops = @ + 1, !.touched = @ \cup {e}]
    /\ UNCHANGED <<timed_events, fd_events, tevs, hist, now, pc, cur_time,
                   time_to_wait, next_event, sel, current, ret>>

\* disable_fd_event(e).
DisableFd(e) ==
    /\ MayCall
    /\ fevs' = disable_fd_event(fevs, e)
    /\ obs' = [obs EXCEPT !.nops = @ + 1, !.touched = @ \cup {e}]
    /\ UNCHANGED <<timed_events, fd_events, tevs, hist, now, pc, cur_time,
                   time_to_wait, next_event, sel, current, ret>>

\* Intervals of the timed events and descriptors of the fd events at the start.
Intervals == {1, 2}

\* f2 as registered: on the descriptor of f1 with the same or with another
\* interest, on a descriptor of its own with two interests, or on the highest
\* descriptor an fd_set holds.
F2Setups == {[fd |-> 3, options |-> EV_READABLE],
             [fd |-> 3, options |-> EV_WRITABLE],
             [fd |-> 4, options |-> EV_READABLE + EV_WRITABLE],
             [fd |-> FD_SETSIZE - 1, options |-> EV_READABLE]}

\* The registries the collaborators have built when event_system_start is
\* called: t1, t2 and f1, f2 added in this order to an empty event_system.
BuiltTimed ==
    add_timed_event(add_timed_event(
        [list |-> ("A" :> NoList @@ "B" :> NoList),
         ev |-> ("t1" :> FreshTimed @@ "t2" :> FreshTimed @@ "t3" :> FreshTimed)],
        LoopSys, "t1"), LoopSys, "t2")

BuiltFd(o1, o2) ==
    add_fd_event(add_fd_event(
        [list |-> ("A" :> NoList @@ "B" :> NoList),
         ev |-> ("f1" :> FreshFd @@ "f2" :> FreshFd @@ "f3" :> FreshFd)],
        LoopSys, "f1", o1), LoopSys, "f2", o2)

\* The highest descriptor of the enabled registered fd events, plus one, is
\* not below FD_SETSIZE.
OverCapacity ==
    \E e \in Registered(FdHeap, LoopSys) :
        fevs[e].enabled # 0 /\ fevs[e].fd + 1 >= FD_SETSIZE

\* event_system_start is called on the built registries, the intervals of
\* t1 and t2 taken from I and the enabled flag of t1 from E1.
LoopInitWith(I, E1) ==
    /\ timed_events = BuiltTimed.list
    /\ \E i1, i2 \in I : \E en1 \in E1, en2 \in {0, 1} :
        tevs = [BuiltTimed.ev EXCEPT
                    !["t1"] = [@ EXCEPT !.interval = i1, !.enabled = en1],
                    !["t2"] = [@ EXCEPT !.interval = i2, !.enabled = en2]]
    /\ \E f2 \in F2Setups :
        LET b == BuiltFd(EV_READABLE, f2.options) IN
        /\ fd_events = b.list
        /\ fevs = [b.ev EXCEPT !["f2"].fd = f2.fd]
    /\ hist = NoHist
    /\ now = Epoch
    /\ pc = "start"
    /\ cur_time = 0
    /\ time_to_wait = 0
    /\ next_event = INDETERMINATE
    /\ sel = NoSel
    /\ current = NoCursor
    /\ ret = 0
    /\ obs = [NoObs EXCEPT !.over = OverCapacity]

LoopInit == LoopInitWith(Intervals, {0, 1})

\* The same with t1 enabled.
LoopApiInit == LoopInitWith(Intervals, {1})

LoopNext ==
    \/ Start
    \/ LoopFire
    \/ LoopSleepFail
    \/ LoopSleep
    \/ SelectFail
    \/ SelectTimeout
    \/ SelectReady
    \/ FdReturnStop
    \/ FdReturnNext
    \/ FdReturnEnd
    \/ TimedReturnStop
    \/ TimedReturn

\* What a callback may call while it runs.
ApiNext ==
    \/ \E e \in Registered(TimedHeap, LoopSys) : Reschedule(e)
    \/ \E e \in Registered(TimedHeap, LoopSys) : EnableTimed(e)
    \/ \E e \in Registered(TimedHeap, LoopSys) : DisableTimed(e)
    \/ \E e \in Registered(FdHeap, LoopSys) : EnableFd(e)
    \/ \E e \in Registered(FdHeap, LoopSys) : DisableFd(e)

LoopApiNext == LoopNext \/ ApiNext

\* event_system_start on registries the collaborators have built, with
\* callbacks that return either status and leave the events alone.
SpecLoop == LoopInit /\ [][LoopNext]_vars

\* The same loop with callbacks that also reschedule, enable and disable
\* events before they return.
SpecLoopApi == LoopApiInit /\ [][LoopApiNext]_vars

\* --------------------------------------------------------- loop claims

\* C1: when an fd callback returns non-zero, no further callback is invoked
\* and event_system_start returns.
C1_FdStopEndsLoop ==
    [][(pc = "fd_cb" /\ ret' = 1) =>
          (pc' = "done" /\ obs'.calls = obs.calls)]_vars

\* e is the only enabled timed event of the loop.
SoleEnabled(e) ==
    /\ tevs[e].enabled # 0
    /\ \A x \in Registered(TimedHeap, LoopSys) \ {e} : tevs[x].enabled = 0

\* C2: with a single enabled timed event of interval I, no fd activity and a
\* callback that returns 0 and calls nothing, last_call = T0 + k * I after the
\* k-th invocation.
C2_NoDrift ==
    \A e \in Registered(TimedHeap, LoopSys) :
        (/\ pc = "loop"
         /\ SoleEnabled(e)
         /\ obs.nops = 0
         /\ \A f \in FdEvents : obs.calls[f] = 0)
        => tevs[e].last_call = obs.T0 + obs.calls[e] * tevs[e].interval

\* C3: reschedule_event(e) at time T sets last_call to T, and the callback of
\* e is not invoked again before T + interval, wherever the call came from.
C3_RescheduleDelays ==
    [][/\ \A e \in TimedEvents :
            obs'.resched[e] # obs.resched[e] => tevs'[e].last_call = obs'.resched[e]
       /\ (pc = "loop" /\ pc' = "timed_cb") =>
            (obs.resched[next_event'] >= 0 =>
                cur_time' >= obs.resched[next_event'] + tevs[next_event'].interval)
      ]_vars

\* Disabled timed events are no candidates and do not count in the wait.
TimedExclusion ==
    (pc = "loop" /\ pc' # "loop") =>
        LET en == SelectSeq(Traversal(TimedHeap, LoopSys),
                            LAMBDA x : tevs[x].enabled # 0)
            r == CalcFrom(tevs, en, 1, cur_time', UINT64_MAX, INDETERMINATE)
        IN  /\ time_to_wait' = r.time_to_wait
            /\ next_event' = r.next_timed_event
            /\ next_event' # INDETERMINATE => tevs[next_event'].enabled # 0

\* The descriptors the enabled registered fd events watch for condition flag.
EnabledInterest(flag) ==
    {fevs[e].fd : e \in {x \in Registered(FdHeap, LoopSys) :
                            fevs[x].enabled # 0 /\ HasFlag(fevs[x].options, flag)}}

\* Disabled fd events add nothing to the wait sets and are not dispatched.
FdExclusion ==
    /\ (pc = "loop" /\ pc' = "select") =>
           /\ sel'.on_readable = EnabledInterest(EV_READABLE)
           /\ sel'.on_writable = EnabledInterest(EV_WRITABLE)
           /\ sel'.on_exception = EnabledInterest(EV_EXCEPTIONAL)
    /\ \A f \in FdEvents :
           obs'.calls[f] # obs.calls[f] => fevs[f].enabled # 0

\* enable_timed_event sets enabled and stamps last_call with the clock.
EnableStamps ==
    \A e \in TimedEvents :
        obs'.enabled_at[e] # obs.enabled_at[e] =>
            (tevs'[e].enabled = 1 /\ tevs'[e].last_call = now')

\* C4 without its last part: what holds of the code.
C4_Exclusion == [][TimedExclusion /\ FdExclusion /\ EnableStamps]_vars

\* C4: a disabled timed event is no candidate and does not count in the wait,
\* a disabled fd event is in no wait set and is not dispatched, and
\* enable_timed_event sets enabled and last_call so that the re-enabled event
\* next fires a full interval after the enable call.
C4_DisabledExcluded ==
    [][/\ TimedExclusion
       /\ FdExclusion
       /\ EnableStamps
       /\ (pc = "loop" /\ pc' = "timed_cb") =>
            (obs.enabled_at[next_event'] >= 0 =>
                cur_time' >= obs.enabled_at[next_event'] + tevs[next_event'].interval)
      ]_vars

\* The element of S that comes first in the timed registry.
Earliest(S) ==
    LET T == Traversal(TimedHeap, LoopSys)
        i == CHOOSE j \in 1..Len(T) :
                T[j] \in S /\ \A k \in 1..(j - 1) : T[k] \notin S
    IN  T[i]

\* The iteration that ends here found two timed events due and invoked one
\* callback, which returned 0 and left the other event alone.
TwoWereDue ==
    /\ pc = "loop"
    /\ Len(obs.fired) = 1
    /\ Cardinality(obs.due) = 2
    /\ obs.fired[1] \in obs.due
    /\ (obs.due \ {obs.fired[1]}) \cap obs.touched = {}

\* C5 as stated: of two events due at one iteration the earlier registered
\* fires, alone, and the other fires at the following iteration.
C5_OtherFiresNext ==
    [][TwoWereDue =>
          LET a == obs.fired[1]
              b == CHOOSE x \in obs.due : x # a
          IN  /\ a = Earliest(obs.due)
              /\ pc' = "timed_cb"
              /\ next_event' = b]_vars

\* C5 as amended: the earlier registered fires, alone; at the following
\* iteration the other is still due and the callback invoked is that of the
\* earliest registered event due then, which is the other event unless the
\* first one is due again.
C5_EarliestDueFires ==
    [][/\ Len(obs'.fired) <= 1
       /\ TwoWereDue =>
          LET a == obs.fired[1]
              b == CHOOSE x \in obs.due : x # a
          IN  /\ a = Earliest(obs.due)
              /\ pc' = "timed_cb"
              /\ b \in obs'.due
              /\ obs'.fired = <<next_event'>>
              /\ next_event' = Earliest(obs'.due)
              /\ (next_event' = b) <=> (Earliest(obs'.due \cup {b}) = b)]_vars

\* t1 and t2 were due together, t1 has fired and returned 0, and the loop is
\* about to iterate again.
C5_Witness ==
    /\ TwoWereDue
    /\ obs.fired = <<"t1">>
    /\ ENABLED LoopFire

\* C6 as stated: with the fd capacity exceeded at the start, no callback at
\* all is ever invoked.
C6_NoCallbackAtAll == obs.over => TotalCalls = 0

\* C6 as amended: with the fd capacity exceeded at the start, no fd callback
\* is invoked and select() is never called; the loop ends at the first
\* iteration that finds no timed event due, and a timed callback is invoked
\* only at iterations that found one due.
C6_NoFdCallbackNoWait ==
    obs.over =>
        /\ \A f \in FdEvents : obs.calls[f] = 0
        /\ ~obs.waited
        /\ pc \notin {"select", "fd_cb"}
        /\ TotalCalls > 0 => obs.ever_due
        /\ obs.due = {} => (pc \in {"start", "done"} \/ (pc = "loop" /\ ~obs.ever_due))

\* The capacity check ended the loop after a timed callback had been invoked.
C6_Witness ==
    /\ obs.over
    /\ pc = "done"
    /\ obs.stop.ev = NULL
    /\ TotalCalls = 1

\* C7: when a timed callback returns non-zero the loop ends at once: no
\* callback, no wait and no update of last_call follow, so the callback that
\* asked to stop at its n-th invocation has been invoked n times.
C7_TimedStopEndsLoop ==
    [][/\ (pc = "timed_cb" /\ ret' = 1) =>
            /\ pc' = "done"
            /\ tevs' = tevs
            /\ obs'.calls = obs.calls
            /\ obs'.waited = obs.waited
       /\ pc = "done" => vars' = vars
       /\ obs'.stop.ev # NULL =>
            (pc' = "done" /\ obs'.calls[obs'.stop.ev] = obs'.stop.n)
      ]_vars

\* A timed callback asked to stop at its second invocation.
C7_Witness ==
    /\ pc = "done"
    /\ obs.stop.ev # NULL
    /\ obs.stop.n = 2

\* ----------------------------------------------------- registry claims

\* How often x occurs in q.
Count(q, x) == Cardinality({i \in 1..Len(q) : q[i] = x})

\* C8: after any sequence of adds of unregistered events and removes of
\* registered events, the number of events reached from first through next is
\* the number of adds minus the number of removes on that registry, and the
\* traversal visits the surviving events in the order they were last added.
C8_SizeAndOrder ==
    \A s \in EvSys :
        /\ Len(Traversal(TimedHeap, s)) = hist.tadd[s] - hist.trem[s]
        /\ Traversal(TimedHeap, s) = hist.torder[s]
        /\ Len(Traversal(FdHeap, s)) = hist.fadd[s] - hist.frem[s]
        /\ Traversal(FdHeap, s) = hist.forder[s]

\* t1, t2 added, t1 removed and added again: t1 now follows t2.
C8_Witness ==
    /\ hist.tadd["A"] = 3
    /\ hist.trem["A"] = 1
    /\ hist.torder["A"] = <<"t2", "t1">>
    /\ Traversal(TimedHeap, "A") = <<"t2", "t1">>

\* first and last both null or both set, first.prev and last.next null, and
\* every next link answered by the matching prev link.
WellFormed(h, s) ==
    LET l == h.list[s] IN
    /\ (l.first = NULL) <=> (l.last = NULL)
    /\ l.first # NULL => h.ev[l.first].prev = NULL
    /\ l.last # NULL => h.ev[l.last].next = NULL
    /\ Terminates(h, s)
    /\ \A x \in Registered(h, s) :
           h.ev[x].next # NULL => h.ev[h.ev[x].next].prev = x

AfterRemove(h, kind) ==
    (hist.last.op = "remove" /\ hist.last.kind = kind) =>
        /\ WellFormed(h, hist.last.sys)
        /\ hist.last.ev \notin Range(Traversal(h, hist.last.sys))
        /\ hist.last.ev \notin Range(BackTraversal(h, hist.last.sys))

AfterReAdd(h, kind) ==
    (hist.last.op = "add" /\ hist.last.kind = kind /\ hist.last.readd # "never") =>
        LET T == Traversal(h, hist.last.sys) IN
        /\ WellFormed(h, hist.last.sys)
        /\ Len(T) > 0
        /\ T[Len(T)] = hist.last.ev
        /\ Count(T, hist.last.ev) = 1
        /\ h.list[hist.last.sys].last = hist.last.ev

\* C10: after the removal of a registered event (the first, the last, an
\* interior or the only one) its registry is a well-formed doubly-linked list
\* from which the removed event cannot be reached, forwards or backwards; an
\* event added again after its removal appears exactly once, at the tail.
C10_RemoveRepairsList ==
    /\ AfterRemove(TimedHeap, "timed")
    /\ AfterRemove(FdHeap, "fd")
    /\ AfterReAdd(TimedHeap, "timed")
    /\ AfterReAdd(FdHeap, "fd")

\* An event removed from the interior of a list of three has been added again.
C10_Witness ==
    /\ hist.last.op = "add"
    /\ hist.last.readd = "interior"
    /\ Len(Traversal(TimedHeap, hist.last.sys)) = 3

\* Every handle occurs at most once, in at most one registry, and every
\* traversal ends.
RegistriesIntact(h) ==
    /\ \A s \in EvSys : Terminates(h, s)
    /\ \A s \in EvSys : \A e \in DOMAIN h.ev : Count(Traversal(h, s), e) <= 1
    /\ \A s1, s2 \in EvSys :
           s1 # s2 => Registered(h, s1) \cap Registered(h, s2) = {}

\* C9: an add of an event that is registered already fails and leaves every
\* registry unchanged, so that each handle stays in at most one registry, at
\* most once, and traversal terminates.
C9_AddRegisteredRejected ==
    [][(hist' # hist /\ hist'.last.op = "add_registered") =>
          /\ \A s \in EvSys : Traversal(TimedHeap, s)' = Traversal(TimedHeap, s)
          /\ \A s \in EvSys : Traversal(FdHeap, s)' = Traversal(FdHeap, s)
          /\ RegistriesIntact(TimedHeap)'
          /\ RegistriesIntact(FdHeap)']_vars

\* ------------------------------------------------- wait and dispatch claims

\* C11: when the bounded wait of an iteration times out with no descriptor
\* ready, the candidate's callback is invoked in that same iteration (the
\* clock is not read again), and when it returns 0 the candidate's last_call
\* becomes the time read at the start of the iteration plus the wait.
C11_TimeoutFiresCandidate ==
    [][/\ (pc = "select" /\ pc' \notin {"select", "fd_cb", "done"}) =>
            /\ pc' = "timed_cb"
            /\ next_event' = next_event
            /\ cur_time' = cur_time
            /\ time_to_wait' = time_to_wait
       /\ (pc = "timed_cb" /\ pc' = "loop") =>
            tevs'[next_event].last_call = cur_time + time_to_wait
      ]_vars

\* The interest flag of the condition the k-th if of handle_fd_events tests.
Flag(k) ==
    IF k = 1 THEN EV_READABLE
    ELSE IF k = 2 THEN EV_WRITABLE
    ELSE EV_EXCEPTIONAL

\* Condition k is in the interest mask of the enabled event e and select()
\* has reported it for the descriptor of e.
Matched(e, k) ==
    /\ fevs[e].enabled # 0
    /\ HasFlag(fevs[e].options, Flag(k))
    /\ fevs[e].fd \in SetOf(sel, k)

\* How often the pass has invoked the callback of e for condition k.
Dispatched(e, k) == Count(obs.pass, [ev |-> e, k |-> k])

\* No callback of the pass so far was for an unmatched condition or a repeat.
PassSound ==
    \A e \in FdEvents, k \in 1..3 :
        Dispatched(e, k) <= (IF Matched(e, k) THEN 1 ELSE 0)

\* Every matched condition of a registered event has had its callback.
PassComplete ==
    \A e \in Registered(FdHeap, LoopSys), k \in 1..3 :
        Matched(e, k) => Dispatched(e, k) = 1

\* C12: in one wait completion the callback of an enabled fd event is invoked
\* exactly once for every condition that is in its own interest mask and
\* reported ready for its descriptor, and for no other condition.
C12_OncePerMatchedCondition ==
    [][/\ pc' = "fd_cb" => PassSound'
       /\ (pc = "fd_cb" /\ pc' = "loop" /\ ret' = 0) => (PassSound /\ PassComplete)
      ]_vars

\* The set size the enabled registered fd events with a non-empty interest
\* mask need: their highest descriptor plus one.
CapacityNeeded ==
    LET S == {fevs[e].fd : e \in {x \in Registered(FdHeap, LoopSys) :
                                     fevs[x].enabled # 0 /\ fevs[x].options # 0}}
    IN  IF S = {} THEN 1
        ELSE 1 + CHOOSE m \in S : \A x \in S : x <= m

\* C13: event_system_sleep returns -1 without waiting exactly when the highest
\* descriptor of the enabled fd events with a non-empty interest mask, plus
\* one, is not below FD_SETSIZE; disabled fd events do not count.
C13_CapacityOfEnabled ==
    [][(pc = "loop" /\ pc' \in {"select", "done"}) =>
          ((pc' = "done") <=> (CapacityNeeded >= FD_SETSIZE))]_vars

\* --------------------------------------------------------- fair execution

\* The clock is followed this far past Epoch in the fair specification.
LiveSpan == 4

\* Intervals in the fair specification: 0 makes an event due at every
\* reading of the clock.
LiveIntervals == {0, 1}

LiveInit == LoopInitWith(LiveIntervals, {0, 1})

\* select() returns with f1's descriptor readable: it is ready and stays so.
SelectReadyF1 ==
    /\ SelectReady
    /\ fevs["f1"].fd \in sel'.on_readable

\* The iterations whose reading of the clock is within LiveSpan.
LiveFire == LoopFire /\ now' <= Epoch + LiveSpan
LiveSleepFail == LoopSleepFail /\ now' <= Epoch + LiveSpan
LiveSleep == LoopSleep /\ now' <= Epoch + LiveSpan

\* The steps of the loop while select() neither fails nor times out.
LiveLoopNext ==
    \/ Start
    \/ LiveFire
    \/ LiveSleepFail
    \/ LiveSleep
    \/ SelectReadyF1
    \/ FdReturnStop
    \/ FdReturnNext
    \/ FdReturnEnd
    \/ TimedReturnStop
    \/ TimedReturn

\* Observation only: the invocation counts start anew, so that a run of any
\* length is followed.
Recount ==
    /\ TotalCalls > 0
    /\ obs' = [obs EXCEPT !.calls = NoObs.calls]
    /\ UNCHANGED <<timed_events, fd_events, tevs, fevs, hist, now, pc, cur_time,
                   time_to_wait, next_event, sel, current, ret>>

LiveNext == LiveLoopNext \/ Recount

\* The loop on a descriptor that stays readable, every step of the loop taken
\* in the end.
SpecLive ==
    /\ LiveInit
    /\ [][LiveNext]_vars
    /\ WF_vars(LiveLoopNext)
    /\ WF_vars(Recount)

\* C14: f1 is enabled and its descriptor stays readable; unless the loop ends,
\* the callback of f1 is invoked in the end, whatever the timed events are.
C14_ReadyIsServed ==
    <>(pc = "done" \/ obs.calls["f1"] > 0 \/
       \E i \in 1..Len(obs.pass) : obs.pass[i].ev = "f1")

\* --------------------------------------- registry calls made by callbacks

\* Descriptors of the fd events a callback registers.
CbFds == {3, 4}

\* The fd callback that is running adds fd event e, registered nowhere, on
\* descriptor fd with interest mask options.
CbAddFd(e, fd, options) ==
    /\ pc = "fd_cb"
    /\ obs.nops < MaxOps
    /\ e \notin RegisteredAnywhere(FdHeap)
    /\ LET h == add_fd_event([FdHeap EXCEPT !.ev[e].fd = fd], LoopSys, e, options) IN
        /\ fd_events' = h.list
        /\ fevs' = h.ev
    /\ obs' = [obs EXCEPT !.nops = @ + 1, !.touched = @ \cup {e}]
    /\ UNCHANGED <<timed_events, tevs, hist, now, pc, cur_time, time_to_wait,
                   next_event, sel, current, ret>>

\* The fd callback that is running removes a registered fd event other than
\* the one it is the callback of.
CbRemoveFd(e) ==
    /\ pc = "fd_cb"
    /\ obs.nops < MaxOps
    /\ e \in Registered(FdHeap, LoopSys)
    /\ e # current.ev
    /\ LET h == remove_fd_event(FdHeap, LoopSys, e) IN
        /\ fd_events' = h.list
        /\ fevs' = h.ev
    /\ obs' = [obs EXCEPT !.nops = @ + 1, !.touched = @ \cup {e}]
    /\ UNCHANGED <<timed_events, tevs, hist, now, pc, cur_time, time_to_wait,
                   next_event, sel, current, ret>>

RegCbNext ==
    \/ \E e \in FdEvents, fd \in CbFds, o \in RegOptions : CbAddFd(e, fd, o)
    \/ \E e \in FdEvents : CbRemoveFd(e)

LoopRegNext == LoopNext \/ RegCbNext

\* The loop with fd callbacks that add and remove other fd events.
SpecLoopReg == LoopInit /\ [][LoopRegNext]_vars

\* The callbacks of the pass, in the order of their invocation, follow the
\* order of the registry among the events that no callback added or removed.
PassInOrder ==
    LET T == Traversal(FdHeap, LoopSys)
        P == SelectSeq(obs.pass, LAMBDA c : c.ev \in Range(T) \ obs.touched)
        At(e) == CHOOSE i \in 1..Len(T) : T[i] = e
    IN  \A i, j \in 1..Len(P) :
            i < j => \/ At(P[i].ev) < At(P[j].ev)
                     \/ (P[i].ev = P[j].ev /\ P[i].k < P[j].k)

\* When the pass ends, every event that stayed registered throughout has had
\* its callback once for each matched condition and for no other.
PassExact ==
    \A e \in Registered(FdHeap, LoopSys) \ obs.touched, k \in 1..3 :
        Dispatched(e, k) = (IF Matched(e, k) THEN 1 ELSE 0)

\* Some callback of the pass has added or removed an fd event.
PassEdited == obs.touched \cap FdEvents # {}

\* C15: when the callbacks of a dispatch pass add fd events or remove fd
\* events other than the one being dispatched, the pass ends, every event
\* that remains registered is dispatched exactly once per matched condition,
\* in registry order, and no event is dispatched after its removal.
C15_PassToleratesAddRemove ==
    [][/\ pc' = "fd_cb" =>
            /\ Terminates(FdHeap, LoopSys)'
            /\ current'.ev \in Registered(FdHeap, LoopSys)'
       /\ (pc = "fd_cb" /\ pc' = "loop" /\ ret' = 0 /\ PassEdited) =>
            (PassExact /\ PassInOrder)
      ]_vars

\* ------------------------------------- calc_next_timed_event on its own

\* The values of last_call, interval and cur_time the function is applied to.
CalcTimes == {0, 1, UINT64_MAX - 1, UINT64_MAX}
CalcNow == {0, 1, 2}

\* t1 and t2 registered in this order with any of the values above, enabled
\* or not; the candidate variable of the caller is not yet assigned.
CalcInit ==
    /\ timed_events = BuiltTimed.list
    /\ \E l1, l2, i1, i2 \in CalcTimes : \E en1, en2 \in {0, 1} :
        tevs = [BuiltTimed.ev EXCEPT
                    !["t1"] = [@ EXCEPT !.last_call = l1, !.interval = i1,
                                        !.enabled = en1],
                    !["t2"] = [@ EXCEPT !.last_call = l2, !.interval = i2,
                                        !.enabled = en2]]
    /\ fd_events = BuiltFd(EV_READABLE, EV_READABLE).list
    /\ fevs = BuiltFd(EV_READABLE, EV_READABLE).ev
    /\ hist = NoHist
    /\ now = Epoch
    /\ pc = "calc"
    /\ cur_time \in CalcNow
    /\ time_to_wait = 0
    /\ next_event = INDETERMINATE
    /\ sel = NoSel
    /\ current = NoCursor
    /\ ret = 0
    /\ obs = NoObs

\* time_to_wait = calc_next_timed_event(&timed_events, &next_event, cur_time)
Calc ==
    /\ pc = "calc"
    /\ LET r == calc_next_timed_event(TimedHeap, LoopSys, cur_time, next_event) IN
        /\ time_to_wait' = r.time_to_wait
        /\ next_event' = r.next_timed_event
    /\ pc' = "calc_done"
    /\ UNCHANGED <<timed_events, fd_events, tevs, fevs, hist, now, cur_time,
                   sel, current, ret, obs>>

SpecCalc == CalcInit /\ [][Calc]_vars

\* The least number of a nonempty set of numbers.
Least(S) == CHOOSE x \in S : \A y \in S : x <= y

\* C16: calc_next_timed_event returns 0 and the first enabled event in
\* registry order whose 64-bit last_call + interval has been reached, if
\* there is one; otherwise the least wait of the enabled events and the
\* earliest registered event with that wait; and UINT64_MAX, the candidate
\* left unwritten, when no event is enabled.
C16_CalcFunction ==
    LET T == Traversal(TimedHeap, LoopSys)
        En == {i \in 1..Len(T) : tevs[T[i]].enabled # 0}
        At(i) == Wrap(tevs[T[i]].last_call + tevs[T[i]].interval)
        Due == {i \in En : At(i) <= cur_time}
        m == Least({At(i) - cur_time : i \in En})
    IN  pc = "calc_done" =>
            IF Due # {}
            THEN time_to_wait = 0 /\ next_event = T[Least(Due)]
            ELSE IF En # {}
            THEN /\ time_to_wait = m
                 /\ next_event = T[Least({i \in En : At(i) - cur_time = m})]
            ELSE time_to_wait = UINT64_MAX /\ next_event = INDETERMINATE

\* C17: the value event_system_sleep returns after a dispatch pass is the
\* number of callback invocations of the pass, one for each fd event and
\* condition, and it returns 0 only after a wait without any callback.
C17_SleepReturnsCallbackCount ==
    [][/\ (pc = "fd_cb" /\ pc' = "loop" /\ ret' = 0) => sel.result = Len(obs.pass)
       /\ (pc = "select" /\ pc' = "loop") => sel.result = 0
      ]_vars

\* ------------------------------------------ evtime_to_timeval on its own

\* The timeouts in nanoseconds the conversion is applied to: below and above
\* a microsecond, a millisecond and a second.
ConvTimes ==
    {250 * i : i \in 0..59} \cup {999999, 1000000, 999999999, 1000000000, 2000000001}

ConvInit ==
    /\ timed_events = BuiltTimed.list
    /\ tevs = BuiltTimed.ev
    /\ fd_events = BuiltFd(EV_READABLE, EV_READABLE).list
    /\ fevs = BuiltFd(EV_READABLE, EV_READABLE).ev
    /\ hist = NoHist
    /\ now = Epoch
    /\ pc = "conv"
    /\ cur_time = 0
    /\ time_to_wait \in ConvTimes
    /\ next_event = INDETERMINATE
    /\ sel = NoSel
    /\ current = NoCursor
    /\ ret = 0
    /\ obs = NoObs

\* struct timeval tv = evtime_to_timeval(time_to_wait), line 101
Conv ==
    /\ pc = "conv"
    /\ sel' = [sel EXCEPT !.tv = evtime_to_timeval(time_to_wait)]
    /\ pc' = "conv_done"
    /\ UNCHANGED <<timed_events, fd_events, tevs, fevs, hist, now, cur_time,
                   time_to_wait, next_event, current, ret, obs>>

SpecConv == ConvInit /\ [][Conv]_vars

\* C18: the struct timeval built from a timeout of t nanoseconds denotes t
\* in whole microseconds, tv_sec * 10^6 + tv_usec = floor(t / 1000), and its
\* tv_usec is within 0 .. 999999.
C18_TimevalDenotesTimeout ==
    pc = "conv_done" =>
        /\ sel.tv.tv_sec * 1000000 + sel.tv.tv_usec = time_to_wait \div 1000
        /\ sel.tv.tv_usec \in 0..999999

\* ------------------------------------------------ the candidate variable

\* e is the candidate of an iteration that reads the clock as t: the first
\* event of the registry that is enabled and whose time has come.
CandidateAt(e, t) ==
    LET T == Traversal(TimedHeap, LoopSys)
        IsDue(x) == tevs[x].enabled # 0 /\ Wrap(tevs[x].last_call + tevs[x].interval) <= t
    IN  \E i \in 1..Len(T) :
            /\ T[i] = e
            /\ IsDue(e)
            /\ \A j \in 1..(i - 1) : ~IsDue(T[j])

\* C19: every invocation of a timed callback is made through the candidate
\* variable, for an event that is then registered, enabled and the candidate
\* computed in the same iteration; no timed callback is invoked in an
\* iteration that found no enabled timed event.
C19_InvokesOnlyTheCandidate ==
    [][\A e \in TimedEvents :
          obs'.calls[e] > obs.calls[e] =>
              /\ pc = "loop" /\ pc' = "timed_cb"
              /\ next_event' = e
              /\ e \in Registered(TimedHeap, LoopSys)'
              /\ tevs'[e].enabled # 0
              /\ CandidateAt(e, cur_time)'
      ]_vars

\* t2 is called while t1, registered before it, is disabled.
C19_Witness ==
    /\ pc = "timed_cb"
    /\ next_event = "t2"
    /\ obs.calls["t2"] > 0
    /\ tevs["t1"].enabled = 0

\* --------------------------------------------- intervals of the full width

\* The intervals of t1 and t2: a short one and the largest 64-bit value.
WideIntervals == {1, UINT64_MAX}

WideInit == LoopInitWith(WideIntervals, {0, 1})

SpecLoopWide == WideInit /\ [][LoopNext]_vars

\* C20: a timed callback is invoked only when the clock reading of the
\* iteration is at least last_call + interval, the sum taken without
\* wrap-around, and the wait computed for a candidate that is not yet due is
\* that sum minus the clock reading.
C20_NeverEarly ==
    [][/\ \A e \in TimedEvents :
            obs'.calls[e] > obs.calls[e] =>
                cur_time' >= tevs[e].last_call + tevs[e].interval
       /\ (pc = "loop" /\ pc' = "select" /\ next_event' # INDETERMINATE) =>
            time_to_wait' = tevs[next_event'].last_call
                              + tevs[next_event'].interval - cur_time'
      ]_vars

====
